---------------------------- MODULE Spec2Model ----------------------------
(***************************************************************************)
(* cli-radio-player: the playback controller (Player) of cmd/radio/main.go *)
(* with the processes it spawns and their reaper goroutines, and the       *)
(* stream analyzer (StreamAnalyzer) with its four monitoring goroutines.   *)
(*                                                                         *)
(* The specifications share the variables; the two largest are:          *)
(*   Spec          the Player: Start, Stop, Restart called by concurrent   *)
(*                 callers, process exits, reapers, and the life cycle of  *)
(*                 the monitoring goroutines (launch, observe cancel).     *)
(*   SpecAnalyzer  the StreamAnalyzer alone, driven by StartAnalysis and   *)
(*                 StopAnalysis calls, with every step of its goroutines.  *)
(***************************************************************************)
EXTENDS Integers, Sequences, FiniteSets, Bags, TLC

(* ------------------------------ bounds -------------------------------- *)
\* goroutines that call Start/Stop/Restart concurrently
NumCallers == 2
\* processes the controller may spawn in one behaviour
MaxProcs == 3
\* StartAnalysis calls (sessions) in one behaviour of Spec
MaxSessions == 3
\* StartAnalysis calls in one behaviour of SpecAnalyzer
MaxAnalyses == 2
\* periodic goroutines inside a tick at the same time
MaxBusy == 2
\* ticker firings in one behaviour of SpecAnalyzer
MaxTicks == 2
\* requestTimes keeps the last 10 durations
RingSize == 10

Callers == 1..NumCallers
Pids == 1..MaxProcs
\* p.cmd == nil
Nil == 0
\* p.mu is unlocked
Free == 0

\* the four goroutines StartAnalysis launches
Periodic == {"download", "buffer", "network"}
Kinds == {"metadata"} \cup Periodic

\* the URLs a caller passes: a direct stream URL, or one ytRegexp matches
Urls == {"direct", "youtube"}

VARIABLES
    \* Player
    mu,          \* p.mu: Free or the caller holding it
    cmd,         \* p.cmd: Nil or the pid of the process the handle refers to
    isStopped,   \* p.isStopped
    proc,        \* pid -> "unborn" | "running" | "terminating" | "exited" | "killed" | "reaped" | "cleared"
    pc,          \* caller -> "idle" | "Start" | "Stop" | "StopWait"
    inRestart,   \* caller -> TRUE while the caller is inside Restart
    ret,         \* caller -> what its last call returned
    volumePercent,  \* p.volumePercent
    volFilter,   \* the gain in the -af argument of the last exec.Command("ffplay")
    requested,   \* history: the argument of the last SetVolume call
    \* StreamAnalyzer
    ctxDone,     \* sa.ctx is cancelled
    tasks,       \* the bag of analyzer goroutines that have not returned
    stats,       \* sa.stats, the snapshot
    startTime,   \* sa.startTime
    firstAudio,  \* sa.firstAudio
    bufferUsed,  \* sa.bufferUsed
    lastDownloadTime,    \* sa.lastDownloadTime
    successfulRequests,  \* sa.successfulRequests
    failedRequests,      \* sa.failedRequests
    requestTimes,        \* sa.requestTimes, durations in nanoseconds
    now,         \* the wall clock time.Now() reads, in tenths of a second
    \* history
    sessions,    \* StartAnalysis calls so far
    ticks,       \* ticker firings taken by the periodic goroutines so far
    analysisStopped  \* StopAnalysis was called and StartAnalysis not since

volumeVars == <<volumePercent, volFilter, requested>>
playerVars == <<mu, cmd, isStopped, proc, pc, inRestart, ret, volumeVars>>
dataVars == <<stats, startTime, firstAudio, bufferUsed, lastDownloadTime,
              successfulRequests, failedRequests, requestTimes, now>>
analyzerVars == <<ctxDone, tasks, sessions, ticks, analysisStopped, dataVars>>
vars == <<playerVars, analyzerVars>>

(* ------------------------------ numbers ------------------------------- *)
\* float64 quantities (percentages, bytes per second, the score) are kept as
\* exact fractions <<numerator, denominator>> in lowest terms, denominator > 0
RECURSIVE GCD(_, _)
GCD(a, b) == IF b = 0 THEN a ELSE GCD(b, a % b)

Abs(x) == IF x < 0 THEN -x ELSE x

Frac(n, d) ==
    LET g == GCD(Abs(n), Abs(d))
        s == IF d < 0 THEN -1 ELSE 1
    IN  <<(s * n) \div g, (s * d) \div g>>

Whole(n) == <<n, 1>>
FracAdd(a, b) == Frac(a[1] * b[2] + b[1] * a[2], a[2] * b[2])
FracMul(a, b) == Frac(a[1] * b[1], a[2] * b[2])
FracDiv(a, b) == Frac(a[1] * b[2], a[2] * b[1])
FracLess(a, b) == a[1] * b[2] < b[1] * a[2]
FracLeq(a, b) == a[1] * b[2] <= b[1] * a[2]

\* int64(x) of a non-negative float64 x: truncation
Trunc(a) == a[1] \div a[2]

(* --------------------------- StreamAnalyzer --------------------------- *)
\* time.Time{}: the zero time, for which IsZero() holds
ZeroTime == -1

\* time.Duration constants, in nanoseconds
Millisecond == 1000000
Second == 1000 * Millisecond

\* bufferSize: 1024 * 1024
BufferSize == 1048576

\* the zero value of StreamStats
ZeroStats ==
    [Codec |-> "", Bitrate |-> 0, SampleRate |-> 0, DownloadSpeed |-> Whole(0),
     BufferHealth |-> Whole(0), Latency |-> 0, NetworkQuality |-> "",
     LastUpdated |-> ZeroTime, PacketLoss |-> Whole(0), Jitter |-> 0,
     ConnectionStability |-> Whole(0), TotalBytes |-> 0, StartTime |-> ZeroTime]

\* a goroutine of the analyzer: the function it runs, where it is in it, and
\* its local variables (estimatedSpeed; bufferHealth; totalRequests,
\* requestTimes, packetLoss, jitter, stability)
Goroutine(kind, at) ==
    [kind |-> kind, pc |-> at, estimatedSpeed |-> Whole(0),
     bufferHealth |-> Whole(0), totalRequests |-> 0, requestTimes |-> <<>>,
     packetLoss |-> Whole(0), jitter |-> 0, stability |-> Whole(0)]

\* the goroutines of StartAnalysis: extractMetadata starts in its probe, the
\* periodic ones in the select of their loop
Launched ==
    SetToBag({Goroutine("metadata", "probe")}
             \cup {Goroutine(k, "select") : k \in Periodic})

\* how many goroutines running `kind` have not returned
LiveCount(kind) ==
    LET S == {g \in BagToSet(tasks) : g.kind = kind}
    IN  IF S = {} THEN 0 ELSE BagCardinality([g \in S |-> tasks[g]])

\* periodic goroutines that are past their select, inside a tick
Busy ==
    LET S == {g \in BagToSet(tasks) : g.kind \in Periodic /\ g.pc # "select"}
    IN  IF S = {} THEN 0 ELSE BagCardinality([g \in S |-> tasks[g]])

\* a ticker fires and its goroutine takes the tick
Ticked ==
    /\ Busy < MaxBusy
    /\ ticks < MaxTicks
    /\ ticks' = ticks + 1

\* goroutine g moves on as g2
Step(g, g2) == (tasks (-) SetToBag({g})) (+) SetToBag({g2})
At(g, at) == [g EXCEPT !.pc = at]

\* assessNetworkQuality, of a snapshot
SpeedPoints(ratio) ==
    IF FracLeq(Frac(12, 10), ratio) THEN 40
    ELSE IF FracLeq(Whole(1), ratio) THEN 35
    ELSE IF FracLeq(Frac(8, 10), ratio) THEN 25
    ELSE IF FracLeq(Frac(6, 10), ratio) THEN 15
    ELSE 5

BufferPointsDip(health) ==
    IF FracLess(Whole(80), health) THEN 5
    ELSE IF FracLess(Whole(60), health) THEN 15
    ELSE IF FracLess(Whole(40), health) THEN 10
    ELSE 5

BufferPoints(health) ==
    IF FracLess(Whole(80), health) THEN 20
    ELSE IF FracLess(Whole(60), health) THEN 15
    ELSE IF FracLess(Whole(40), health) THEN 10
    ELSE 5

LossPointsInclusive(loss) ==
    IF FracLeq(loss, Whole(1)) THEN 10
    ELSE IF FracLeq(loss, Whole(5)) THEN 5
    ELSE IF FracLeq(loss, Whole(10)) THEN 2
    ELSE 0

LossPoints(loss) ==
    IF FracLess(loss, Whole(1)) THEN 10
    ELSE IF FracLess(loss, Whole(5)) THEN 5
    ELSE IF FracLess(loss, Whole(10)) THEN 2
    ELSE 0

JitterPoints(jitter) ==
    IF jitter < 100 * Millisecond THEN 5
    ELSE IF jitter < 500 * Millisecond THEN 3
    ELSE IF jitter < 1 * Second THEN 1
    ELSE 0

Score(s) ==
    LET requiredSpeed == Frac(s.Bitrate, 8)
        speedRatio == FracDiv(s.DownloadSpeed, requiredSpeed)
    IN  FracAdd(Whole(SpeedPoints(speedRatio) + BufferPoints(s.BufferHealth)
                      + LossPoints(s.PacketLoss) + JitterPoints(s.Jitter)),
                FracMul(s.ConnectionStability, Frac(25, 100)))

assessNetworkQuality(s) ==
    IF s.Bitrate = 0 \/ s.DownloadSpeed = Whole(0) THEN "Unknown"
    ELSE IF FracLeq(Whole(90), Score(s)) THEN "Excellent"
    ELSE IF FracLeq(Whole(75), Score(s)) THEN "Good"
    ELSE IF FracLeq(Whole(60), Score(s)) THEN "Fair"
    ELSE IF FracLeq(Whole(40), Score(s)) THEN "Poor"
    ELSE "Very Poor"

\* updateStats: the snapshot after updateFunc, its label recomputed
updateStats(updated) ==
    [updated EXCEPT !.NetworkQuality = assessNetworkQuality(updated)]

\* GetStats: a copy of the snapshot
GetStats == stats

StartAnalysisResetsLabel ==
    /\ startTime' = now
    /\ bufferUsed' = 0
    /\ lastDownloadTime' = now
    /\ successfulRequests' = 0
    /\ failedRequests' = 0
    /\ requestTimes' = <<>>
    /\ stats' = [stats EXCEPT !.StartTime = now, !.TotalBytes = 0,
                              !.PacketLoss = Whole(0), !.Jitter = 0,
                              !.ConnectionStability = Whole(100),
                              !.NetworkQuality = "Unknown"]
    /\ tasks' = tasks (+) Launched
    /\ sessions' = sessions + 1
    /\ analysisStopped' = FALSE
    /\ UNCHANGED <<ctxDone, ticks, firstAudio, now>>

\* StartAnalysis: resets the session fields and some of the snapshot's, and
\* launches the four goroutines; sa.ctx stays the one NewStreamAnalyzer
\* created, and firstAudio, Bitrate, DownloadSpeed, BufferHealth, Latency and
\* NetworkQuality are left as they are
StartAnalysis ==
    /\ startTime' = now
    /\ bufferUsed' = 0
    /\ lastDownloadTime' = now
    /\ successfulRequests' = 0
    /\ failedRequests' = 0
    /\ requestTimes' = <<>>
    /\ stats' = [stats EXCEPT !.StartTime = now, !.TotalBytes = 0,
                              !.PacketLoss = Whole(0), !.Jitter = 0,
                              !.ConnectionStability = Whole(100)]
    /\ tasks' = tasks (+) Launched
    /\ sessions' = sessions + 1
    /\ analysisStopped' = FALSE
    /\ UNCHANGED <<ctxDone, ticks, firstAudio, now>>

\* StopAnalysis: sa.cancel()
StopAnalysisNoCancel == UNCHANGED analyzerVars
StopAnalysis ==
    /\ ctxDone' = TRUE
    /\ analysisStopped' = TRUE
    /\ UNCHANGED <<tasks, sessions, ticks, dataVars>>

ObserveCancelAndLoop(g) ==
    /\ g.kind \in Periodic
    /\ g.pc = "select"
    /\ ctxDone
    /\ UNCHANGED <<playerVars, analyzerVars>>

\* a periodic goroutine in its select takes the <-sa.ctx.Done() case and returns
ObserveCancel(g) ==
    /\ g.kind \in Periodic
    /\ g.pc = "select"
    /\ ctxDone
    /\ tasks' = tasks (-) SetToBag({g})
    /\ UNCHANGED <<playerVars, ctxDone, sessions, ticks, analysisStopped, dataVars>>

(* ---------------------- the monitoring goroutines --------------------- *)
\* what ffprobe can give: the command fails, its output is not JSON, or a
\* list of stream descriptors (strings are sequences of characters)
Video == [CodecType |-> <<"v","i","d","e","o">>, CodecName |-> "h264",
          BitRate |-> <<>>, SampleRate |-> <<>>]
AudioMp3 == [CodecType |-> <<"a","u","d","i","o">>, CodecName |-> "mp3",
             BitRate |-> <<"6","4","0","0","0">>,
             SampleRate |-> <<"4","8","0","0","0">>]
AudioAac == [CodecType |-> <<"a","u","d","i","o">>, CodecName |-> "aac",
             BitRate |-> <<>>, SampleRate |-> <<"N","/","A">>]
ProbeOutputs ==
    { [out |-> "error", streams |-> <<>>],
      [out |-> "badjson", streams |-> <<>>],
      [out |-> "json", streams |-> <<Video>>],
      [out |-> "json", streams |-> <<Video, AudioMp3>>],
      [out |-> "json", streams |-> <<AudioAac>>] }

\* round-trip durations a HEAD request may take, in nanoseconds
Durations == {10000, 50000}

\* the instants the wall clock is read at, in tenths of a second
Instants == {0, 6610}

Digits == <<"0", "1", "2", "3", "4", "5", "6", "7", "8", "9">>
IsDigit(ch) == \E i \in 1..10 : Digits[i] = ch
DigitValue(ch) == (CHOOSE i \in 1..10 : Digits[i] = ch) - 1

\* the number the leading digits of str spell, acc being the digits so far
RECURSIVE ScanDigits(_, _)
ScanDigits(str, acc) ==
    IF str # <<>> /\ IsDigit(Head(str))
    THEN ScanDigits(Tail(str), 10 * acc + DigitValue(Head(str)))
    ELSE acc

\* fmt.Sscanf(str, "%d", &v): v afterwards, old being v before; nothing is
\* stored when str does not start with a digit
Sscanf(str, old) ==
    IF str # <<>> /\ IsDigit(Head(str)) THEN ScanDigits(str, 0) ELSE old

\* the first stream whose codec_type is "audio": its index, 0 when none
FirstAudio(streams) ==
    LET I == {i \in 1..Len(streams) : streams[i].CodecType = <<"a","u","d","i","o">>}
    IN  IF I = {} THEN 0 ELSE CHOOSE i \in I : \A j \in I : i <= j

\* what extractMetadata stores for a probe result
Metadata(probe) ==
    IF probe.out = "error"
    THEN [Codec |-> "Unknown", Bitrate |-> 0, SampleRate |-> 0]
    ELSE IF probe.out = "badjson"
    THEN [Codec |-> "AAC", Bitrate |-> 128000, SampleRate |-> 44100]
    ELSE IF FirstAudio(probe.streams) = 0
    THEN [Codec |-> "Unknown", Bitrate |-> 128000, SampleRate |-> 44100]
    ELSE LET audioStream == probe.streams[FirstAudio(probe.streams)]
         IN  [Codec |-> audioStream.CodecName,
              Bitrate |-> IF audioStream.BitRate # <<>>
                          THEN Sscanf(audioStream.BitRate, 128000) ELSE 128000,
              SampleRate |-> IF audioStream.SampleRate # <<>>
                             THEN Sscanf(audioStream.SampleRate, 44100) ELSE 44100]

\* extractMetadata: the probe returns, the result is published, the
\* goroutine returns; sa.ctx is never consulted
extractMetadata(g, probe) ==
    /\ g.kind = "metadata"
    /\ g.pc = "probe"
    /\ stats' = updateStats([stats EXCEPT !.Codec = Metadata(probe).Codec,
                                          !.Bitrate = Metadata(probe).Bitrate,
                                          !.SampleRate = Metadata(probe).SampleRate])
    /\ tasks' = tasks (-) SetToBag({g})
    /\ UNCHANGED <<playerVars, ctxDone, sessions, ticks, analysisStopped, startTime, firstAudio,
                   bufferUsed, lastDownloadTime, successfulRequests,
                   failedRequests, requestTimes, now>>

\* monitorDownloadSpeed: case <-ticker.C, the HEAD request is sent. The
\* select may take this case whether or not sa.ctx is cancelled.
downloadTick(g) ==
    /\ g.kind = "download"
    /\ g.pc = "select"
    /\ Ticked
    /\ tasks' = Step(g, At(g, "head"))
    /\ UNCHANGED <<playerVars, ctxDone, sessions, analysisStopped, dataVars>>

AppendedKeepsAll(ring, d) == Append(ring, d)

\* the ring after one more duration: only the last 10 are kept
Appended(ring, d) ==
    IF Len(ring) + 1 > RingSize THEN Tail(Append(ring, d)) ELSE Append(ring, d)

\* monitorDownloadSpeed: the request returns (ok or not, after d), and the
\* counters and the ring are updated under sa.mu
downloadCount(g, ok, d) ==
    /\ g.kind = "download"
    /\ g.pc = "head"
    /\ IF ~ok
       THEN /\ failedRequests' = failedRequests + 1
            /\ UNCHANGED <<successfulRequests, requestTimes>>
       ELSE /\ successfulRequests' = successfulRequests + 1
            /\ requestTimes' = Appended(requestTimes, d)
            /\ UNCHANGED failedRequests
    /\ tasks' = Step(g, At(g, "read"))
    /\ UNCHANGED <<playerVars, ctxDone, sessions, ticks, analysisStopped, stats, startTime,
                   firstAudio, bufferUsed, lastDownloadTime, now>>

\* monitorDownloadSpeed: estimatedSpeed is read from the snapshot's Bitrate
downloadRead(g) ==
    /\ g.kind = "download"
    /\ g.pc = "read"
    /\ tasks' = Step(g, [g EXCEPT !.pc = "publish",
                                  !.estimatedSpeed = Frac(stats.Bitrate, 8)])
    /\ UNCHANGED <<playerVars, ctxDone, sessions, ticks, analysisStopped, dataVars>>

\* monitorDownloadSpeed: updateStats with the speed read earlier
downloadPublish(g) ==
    /\ g.kind = "download"
    /\ g.pc = "publish"
    /\ stats' = updateStats([stats EXCEPT !.DownloadSpeed = g.estimatedSpeed,
                                          !.LastUpdated = now])
    /\ tasks' = Step(g, Goroutine("download", "select"))
    /\ UNCHANGED <<playerVars, ctxDone, sessions, ticks, analysisStopped, startTime, firstAudio,
                   bufferUsed, lastDownloadTime, successfulRequests,
                   failedRequests, requestTimes, now>>

FilledWithoutCap(used, bitrate, timeDiff) ==
    used + Trunc(Frac(bitrate * timeDiff, 8 * 10 * 10))

\* the accumulator after timeDiff tenths of a second at the snapshot's
\* bitrate: int64(bytesPerSecond * timeDiff * 0.1) more, capped at bufferSize
Filled(used, bitrate, timeDiff) ==
    LET bufferIncrease == Trunc(Frac(bitrate * timeDiff, 8 * 10 * 10))
    IN  IF used + bufferIncrease > BufferSize THEN BufferSize
        ELSE used + bufferIncrease

\* monitorBuffer: case <-ticker.C and the accumulation under sa.mu
bufferTick(g) ==
    /\ g.kind = "buffer"
    /\ g.pc = "select"
    /\ Ticked
    /\ IF now - lastDownloadTime > 0
       THEN /\ bufferUsed' = Filled(bufferUsed, stats.Bitrate, now - lastDownloadTime)
            /\ lastDownloadTime' = now
       ELSE UNCHANGED <<bufferUsed, lastDownloadTime>>
    /\ tasks' = Step(g, [g EXCEPT !.pc = "publish",
                                  !.bufferHealth = Frac(bufferUsed' * 100, BufferSize)])
    /\ UNCHANGED <<playerVars, ctxDone, sessions, analysisStopped, stats, startTime,
                   firstAudio, successfulRequests, failedRequests,
                   requestTimes, now>>

\* monitorBuffer: updateStats with the health computed earlier; the first
\* time firstAudio is zero it is set and Latency recorded (in clock units)
bufferPublish(g) ==
    /\ g.kind = "buffer"
    /\ g.pc = "publish"
    /\ firstAudio' = IF firstAudio = ZeroTime THEN now ELSE firstAudio
    /\ stats' = updateStats([stats EXCEPT
                    !.BufferHealth = g.bufferHealth,
                    !.Latency = IF firstAudio = ZeroTime THEN now - startTime ELSE @])
    /\ tasks' = Step(g, Goroutine("buffer", "select"))
    /\ UNCHANGED <<playerVars, ctxDone, sessions, ticks, analysisStopped, startTime, bufferUsed,
                   lastDownloadTime, successfulRequests, failedRequests,
                   requestTimes, now>>

RECURSIVE Sum(_)
Sum(seq) == IF seq = <<>> THEN 0 ELSE Head(seq) + Sum(Tail(seq))

\* the sum of the durations divided by their number, as int64 division does
\* it: the sum of the quotients plus the quotient of the sum of the
\* remainders, which is the same number and stays below the largest duration
Mean(times) ==
    LET n == Len(times)
    IN  Sum([i \in 1..n |-> times[i] \div n])
        + Sum([i \in 1..n |-> times[i] % n]) \div n

\* calculateJitter: half the variance of the durations around their mean.
\* The arithmetic is that of int64 nanoseconds as long as the sum of the
\* squares stays below 2^31, which the Durations above ensure; for longer
\* durations see calculateJitterInt64 below.
calculateJitter(times) ==
    IF Len(times) < 2 THEN 0
    ELSE LET avg == Mean(times)
             variance == Sum([i \in 1..Len(times) |->
                                (times[i] - avg) * (times[i] - avg)]) \div Len(times)
         IN  Trunc(Frac(variance * 5, 10))

\* Two's-complement integers wider than 31 bits, for time.Duration values
\* (int64 nanoseconds) beyond 2 s and their squares: five limbs of 15 bits,
\* the least significant first, the last limb kept below `top`. With
\* top = 16 the width is 64 bits and the arithmetic wraps as int64 does;
\* with top = 2^15 it is 75 bits, wide enough for every value met here.
LimbBase == 32768
Limbs == 5
Int64Top == 16
WideTop == 32768

\* the limbs of the number whose limb i, before carrying, is raw[i]
RECURSIVE Ripple(_, _, _, _)
Ripple(raw, i, carry, top) ==
    IF i > Limbs THEN <<>>
    ELSE LET v == raw[i] + carry
         IN  <<v % (IF i = Limbs THEN top ELSE LimbBase)>>
             \o Ripple(raw, i + 1, v \div LimbBase, top)

\* a number below 2^31 as limbs
FromInt(n) ==
    <<n % LimbBase, (n \div LimbBase) % LimbBase, n \div (LimbBase * LimbBase), 0, 0>>

WAdd(a, b, top) == Ripple([i \in 1..Limbs |-> a[i] + b[i]], 1, 0, top)

WNeg(a, top) ==
    Ripple([i \in 1..Limbs |->
               (IF i = Limbs THEN top ELSE LimbBase) - 1 - a[i]
               + (IF i = 1 THEN 1 ELSE 0)], 1, 0, top)

WSub(a, b, top) == WAdd(a, WNeg(b, top), top)

\* a times the limb k, and a moved up by n limbs
WMulLimb(a, k, top) == Ripple([i \in 1..Limbs |-> a[i] * k], 1, 0, top)
WShift(a, n) == [i \in 1..Limbs |-> IF i > n THEN a[i - n] ELSE 0]

RECURSIVE WMulFrom(_, _, _, _)
WMulFrom(a, b, i, top) ==
    IF i > Limbs THEN FromInt(0)
    ELSE WAdd(WShift(WMulLimb(a, b[i], top), i - 1), WMulFrom(a, b, i + 1, top), top)

\* a * b, the low bits of the product
WMul(a, b, top) == WMulFrom(a, b, 1, top)

\* the limbs 1..i of a non-negative number divided by n, rem carried down
RECURSIVE WDivFrom(_, _, _, _)
WDivFrom(a, i, rem, n) ==
    IF i = 0 THEN <<>>
    ELSE LET v == rem * LimbBase + a[i]
         IN  WDivFrom(a, i - 1, v % n, n) \o <<v \div n>>

WIsNeg(a, top) == 2 * a[Limbs] >= top

\* a / n as Go divides signed integers: towards zero
WDiv(a, n, top) ==
    IF WIsNeg(a, top) THEN WNeg(WDivFrom(WNeg(a, top), Limbs, 0, n), top)
    ELSE WDivFrom(a, Limbs, 0, n)

RECURSIVE WSum(_, _)
WSum(seq, top) ==
    IF seq = <<>> THEN FromInt(0) ELSE WAdd(Head(seq), WSum(Tail(seq), top), top)

\* a duration of ms milliseconds, in nanoseconds
Milliseconds(ms) == WMul(FromInt(ms), FromInt(Millisecond), WideTop)

\* calculateJitter in arithmetic of the given width: sum, avg, the sum of the
\* squared differences, variance, and time.Duration(float64(variance) * 0.5)
\* (the rounding of float64(variance) to 53 bits is left out)
JitterAtWidth(times, top) ==
    IF Len(times) < 2 THEN FromInt(0)
    ELSE LET n == Len(times)
             avg == WDiv(WSum(times, top), n, top)
             square(i) == WMul(WSub(times[i], avg, top), WSub(times[i], avg, top), top)
             variance == WDiv(WSum([i \in 1..n |-> square(i)], top), n, top)
         IN  WDiv(variance, 2, top)

\* calculateJitter on time.Duration, which is int64
calculateJitterInt64(times) == JitterAtWidth(times, Int64Top)

\* monitorNetworkQuality: as networkLoss, with int64 durations as limbs
networkLossInt64(g) ==
    /\ g.kind = "network"
    /\ g.pc = "loss"
    /\ tasks' = Step(g, [g EXCEPT
                    !.pc = "stability",
                    !.packetLoss = IF g.totalRequests > 0
                                   THEN Frac(failedRequests * 100, g.totalRequests)
                                   ELSE Whole(0),
                    !.jitter = calculateJitterInt64(g.requestTimes)])
    /\ UNCHANGED <<playerVars, ctxDone, sessions, ticks, analysisStopped, dataVars>>

calculateConnectionStabilityBoosted ==
    LET totalRequests == successfulRequests + failedRequests
        rate == Frac(successfulRequests * 100, totalRequests)
        slow == /\ Len(requestTimes) > 1
                /\ Mean(requestTimes) > 2 * Second
    IN  IF totalRequests = 0 THEN Whole(100)
        ELSE IF slow THEN FracMul(rate, Frac(12, 10)) ELSE rate

\* calculateConnectionStability: the success rate in percent, times 0.8 when
\* more than one duration is recorded and their mean exceeds 2 s, clamped
calculateConnectionStability ==
    LET totalRequests == successfulRequests + failedRequests
        rate == Frac(successfulRequests * 100, totalRequests)
        slow == /\ Len(requestTimes) > 1
                /\ Mean(requestTimes) > 2 * Second
        stability == IF slow THEN FracMul(rate, Frac(8, 10)) ELSE rate
    IN  IF totalRequests = 0 THEN Whole(100)
        ELSE IF FracLess(stability, Whole(0)) THEN Whole(0)
        ELSE IF FracLess(Whole(100), stability) THEN Whole(100)
        ELSE stability

\* monitorNetworkQuality: case <-ticker.C; totalRequests and a copy of the
\* ring are taken under sa.mu
networkTick(g) ==
    /\ g.kind = "network"
    /\ g.pc = "select"
    /\ Ticked
    /\ tasks' = Step(g, [g EXCEPT !.pc = "loss",
                                  !.totalRequests = successfulRequests + failedRequests,
                                  !.requestTimes = requestTimes])
    /\ UNCHANGED <<playerVars, ctxDone, sessions, analysisStopped, dataVars>>

\* monitorNetworkQuality: packetLoss from sa.failedRequests as it is now
\* (read without the lock) over the total read earlier; jitter of the copy
networkLoss(g) ==
    /\ g.kind = "network"
    /\ g.pc = "loss"
    /\ tasks' = Step(g, [g EXCEPT
                    !.pc = "stability",
                    !.packetLoss = IF g.totalRequests > 0
                                   THEN Frac(failedRequests * 100, g.totalRequests)
                                   ELSE Whole(0),
                    !.jitter = calculateJitter(g.requestTimes)])
    /\ UNCHANGED <<playerVars, ctxDone, sessions, ticks, analysisStopped, dataVars>>

\* monitorNetworkQuality: calculateConnectionStability under sa.mu
networkStability(g) ==
    /\ g.kind = "network"
    /\ g.pc = "stability"
    /\ tasks' = Step(g, [g EXCEPT !.pc = "publish",
                                  !.stability = calculateConnectionStability])
    /\ UNCHANGED <<playerVars, ctxDone, sessions, ticks, analysisStopped, dataVars>>

\* monitorNetworkQuality: updateStats with the three values
networkPublish(g) ==
    /\ g.kind = "network"
    /\ g.pc = "publish"
    /\ stats' = updateStats([stats EXCEPT !.PacketLoss = g.packetLoss,
                                          !.Jitter = g.jitter,
                                          !.ConnectionStability = g.stability])
    /\ tasks' = Step(g, Goroutine("network", "select"))
    /\ UNCHANGED <<playerVars, ctxDone, sessions, ticks, analysisStopped, startTime, firstAudio,
                   bufferUsed, lastDownloadTime, successfulRequests,
                   failedRequests, requestTimes, now>>

\* the wall clock moves on to a later instant
AdvanceTime(t) ==
    /\ t > now
    /\ now' = t
    /\ UNCHANGED <<playerVars, ctxDone, tasks, sessions, ticks, analysisStopped, stats,
                   startTime, firstAudio, bufferUsed, lastDownloadTime,
                   successfulRequests, failedRequests, requestTimes>>

\* the analyzer's owner calls StartAnalysis, StopAnalysis
CallStartAnalysis ==
    /\ sessions < MaxAnalyses
    /\ StartAnalysis
    /\ UNCHANGED playerVars

CallStopAnalysis ==
    /\ StopAnalysis
    /\ UNCHANGED playerVars

\* GetQualityAlerts: one alert per condition that holds in the snapshot, in
\* the order of the checks (an alert is represented by what it warns of;
\* Latency is in tenths of a second)
GetQualityAlertsNoStability ==
    (IF FracLess(Whole(5), stats.PacketLoss) THEN <<"packet loss">> ELSE <<>>)
    \o (IF stats.Jitter > 500 * Millisecond THEN <<"jitter">> ELSE <<>>)
    \o (IF FracLess(stats.BufferHealth, Whole(30)) THEN <<"buffer">> ELSE <<>>)
    \o (IF stats.NetworkQuality \in {"Poor", "Very Poor"} THEN <<"quality">> ELSE <<>>)
    \o (IF stats.Latency > 5 * 10 THEN <<"latency">> ELSE <<>>)
    \o (IF /\ stats.Bitrate > 0
           /\ FracLess(stats.DownloadSpeed,
                       FracMul(Frac(stats.Bitrate, 8), Frac(8, 10)))
        THEN <<"speed">> ELSE <<>>)

GetQualityAlerts ==
    (IF FracLess(Whole(5), stats.PacketLoss) THEN <<"packet loss">> ELSE <<>>)
    \o (IF stats.Jitter > 500 * Millisecond THEN <<"jitter">> ELSE <<>>)
    \o (IF FracLess(stats.ConnectionStability, Whole(70))
        THEN <<"stability">> ELSE <<>>)
    \o (IF FracLess(stats.BufferHealth, Whole(30)) THEN <<"buffer">> ELSE <<>>)
    \o (IF stats.NetworkQuality \in {"Poor", "Very Poor"} THEN <<"quality">> ELSE <<>>)
    \o (IF stats.Latency > 5 * 10 THEN <<"latency">> ELSE <<>>)
    \o (IF /\ stats.Bitrate > 0
           /\ FracLess(stats.DownloadSpeed,
                       FracMul(Frac(stats.Bitrate, 8), Frac(8, 10)))
        THEN <<"speed">> ELSE <<>>)

\* updateStats called with an updateFunc that leaves `updated`
Publish(updated) ==
    /\ stats' = updateStats(updated)
    /\ UNCHANGED <<playerVars, ctxDone, tasks, sessions, ticks, analysisStopped,
                   startTime, firstAudio, bufferUsed, lastDownloadTime,
                   successfulRequests, failedRequests, requestTimes, now>>

\* values for the fields of the snapshot: on, next to and between the
\* thresholds of the scorer and of the alerts
Bitrates == {0, 128000}
Speeds == {Whole(0), Whole(6400), Whole(9599), Whole(9600), Whole(12800),
           Whole(15999), Whole(16000), Whole(19199), Whole(19200)}
BufferHealths == {Whole(20), Frac(299, 10), Whole(30), Whole(40),
                  Frac(605, 10), Whole(80), Whole(85)}
Stabilities == {Whole(0), Whole(50), Whole(70), Whole(100)}
Losses == {Whole(0), Whole(1), Whole(5), Whole(8), Whole(10)}
Jitters == {0, 100 * Millisecond, 500 * Millisecond, 600 * Millisecond, Second}
Latencies == {0, 50, 51}

\* the scorer and the alerts over snapshots of these values, each reached
\* by updateStats calls that set one field
NextScorer ==
    \/ \E v \in Bitrates : Publish([stats EXCEPT !.Bitrate = v])
    \/ \E v \in Speeds : Publish([stats EXCEPT !.DownloadSpeed = v])
    \/ \E v \in BufferHealths : Publish([stats EXCEPT !.BufferHealth = v])
    \/ \E v \in Stabilities : Publish([stats EXCEPT !.ConnectionStability = v])
    \/ \E v \in Losses : Publish([stats EXCEPT !.PacketLoss = v])
    \/ \E v \in Jitters : Publish([stats EXCEPT !.Jitter = v])
    \/ \E v \in Latencies : Publish([stats EXCEPT !.Latency = v])

(* ------------------------------- Player ------------------------------- *)
\* processes spawned so far
NumProcs == Cardinality({i \in Pids : proc[i] # "unborn"})

\* a spawned process that is still executing
Alive(i) == proc[i] \in {"running", "terminating"}

\* NewPlayer: volumePercent: 70
DefaultVolume == 70

\* no exec.Command("ffplay") has been built yet
NoFilter == <<>>

\* SetVolume has not been called
NoRequest == <<>>

\* fmt.Sprintf("%f", x): x to six decimals, halves to even, here as the
\* number of millionths printed
Round(a) ==
    LET floor == a[1] \div a[2]
        rest == a[1] - floor * a[2]
    IN  IF 2 * rest < a[2] THEN floor
        ELSE IF 2 * rest > a[2] THEN floor + 1
        ELSE IF floor % 2 = 0 THEN floor ELSE floor + 1

Sprintf(x) == Round(FracMul(x, Whole(1000000)))

\* volDb without the "1 -"
volDbInverted(percent) ==
    FracAdd(FracMul(Frac(percent, 100), Whole(0)),
            FracMul(Whole(-20), Frac(percent, 100)))

\* ffplayArgs: volDb, percent/100*0 - 20*(1 - percent/100). The float64
\* result is within 10^-14 of this value, which is a multiple of 0.2, so the
\* six decimals printed are those of the exact value.
volDb(percent) ==
    FracAdd(FracMul(Frac(percent, 100), Whole(0)),
            FracMul(Whole(-20), FracAdd(Whole(1), Frac(-percent, 100))))

\* ffplayArgs: of the arguments, the gain of "-af volume=%fdB", in millionths
\* of a dB
ffplayArgs == <<Sprintf(volDb(volumePercent))>>

\* SetVolume: clamps percent to 0..100 and stores it; p.mu is not taken
SetVolumeNoClamp(percent) ==
    /\ volumePercent' = percent
    /\ requested' = <<percent>>
    /\ UNCHANGED <<mu, cmd, isStopped, proc, pc, inRestart, ret, volFilter,
                   analyzerVars>>

SetVolume(percent) ==
    /\ requested' = <<percent>>
    /\ volumePercent' = LET clamped == IF percent < 0 THEN 0 ELSE percent
                        IN  IF clamped > 100 THEN 100 ELSE clamped
    /\ UNCHANGED <<mu, cmd, isStopped, proc, pc, inRestart, ret, volFilter,
                   analyzerVars>>

\* Start's guard: p.cmd != nil && p.cmd.Process != nil (exec.Cmd.Start sets
\* Process, and a failed cmd.Start() resets p.cmd to nil under the lock)
AlreadyRunningNoGuard == FALSE
AlreadyRunning == cmd # Nil

\* Stop's guard: p.cmd == nil || p.cmd.Process == nil
NotRunning == cmd = Nil

\* isYouTubeURL
isYouTubeURL(u) == u = "youtube"

\* where a call returns to: Restart goes on to Start after its Stop
AfterStop(c) == IF inRestart[c] THEN "Start" ELSE "idle"

\* a caller calls Start(url), Stop() or Restart(url) and reaches p.mu.Lock()
CallStart(c) ==
    /\ pc[c] = "idle"
    /\ pc' = [pc EXCEPT ![c] = "Start"]
    /\ ret' = [ret EXCEPT ![c] = "none"]
    /\ UNCHANGED <<mu, cmd, isStopped, proc, inRestart, volumeVars, analyzerVars>>

CallStop(c) ==
    /\ pc[c] = "idle"
    /\ pc' = [pc EXCEPT ![c] = "Stop"]
    /\ ret' = [ret EXCEPT ![c] = "none"]
    /\ UNCHANGED <<mu, cmd, isStopped, proc, inRestart, volumeVars, analyzerVars>>

\* Restart: _ = p.Stop(); return p.Start(url)
CallRestart(c) ==
    /\ pc[c] = "idle"
    /\ pc' = [pc EXCEPT ![c] = "Stop"]
    /\ inRestart' = [inRestart EXCEPT ![c] = TRUE]
    /\ ret' = [ret EXCEPT ![c] = "none"]
    /\ UNCHANGED <<mu, cmd, isStopped, proc, volumeVars, analyzerVars>>

\* Start with StartAnalysis called before resolvePlayableURL
StartResolvesLate(c, url, resolveOk, spawnOk) ==
    /\ pc[c] = "Start"
    /\ mu = Free
    /\ pc' = [pc EXCEPT ![c] = "idle"]
    /\ inRestart' = [inRestart EXCEPT ![c] = FALSE]
    /\ UNCHANGED mu
    /\ IF AlreadyRunning
       THEN /\ ret' = [ret EXCEPT ![c] = "already running"]
            /\ UNCHANGED <<cmd, isStopped, proc, volumeVars, analyzerVars>>
       ELSE /\ sessions < MaxSessions
            /\ StartAnalysis
            /\ IF ~resolveOk
               THEN /\ isYouTubeURL(url)
                    /\ ret' = [ret EXCEPT ![c] = "resolve error"]
                    /\ UNCHANGED <<cmd, isStopped, proc, volumeVars>>
               ELSE /\ volFilter' = ffplayArgs
                    /\ UNCHANGED <<volumePercent, requested>>
                    /\ IF ~spawnOk
                       THEN /\ cmd' = Nil
                            /\ ret' = [ret EXCEPT ![c] = "spawn error"]
                            /\ UNCHANGED <<isStopped, proc>>
                       ELSE /\ NumProcs < MaxProcs
                            /\ cmd' = NumProcs + 1
                            /\ proc' = [proc EXCEPT ![NumProcs + 1] = "running"]
                            /\ isStopped' = FALSE
                            /\ ret' = [ret EXCEPT ![c] = "nil"]

\* Start, from p.mu.Lock() to the deferred Unlock. resolveOk and spawnOk are
\* the outcomes of resolvePlayableURL and of cmd.Start().
Start(c, url, resolveOk, spawnOk) ==
    /\ pc[c] = "Start"
    /\ mu = Free
    /\ pc' = [pc EXCEPT ![c] = "idle"]
    /\ inRestart' = [inRestart EXCEPT ![c] = FALSE]
    /\ UNCHANGED mu
    /\ IF AlreadyRunning
       THEN /\ ret' = [ret EXCEPT ![c] = "already running"]
            /\ UNCHANGED <<cmd, isStopped, proc, volumeVars, analyzerVars>>
       ELSE IF ~resolveOk
       THEN /\ isYouTubeURL(url)
            /\ ret' = [ret EXCEPT ![c] = "resolve error"]
            /\ UNCHANGED <<cmd, isStopped, proc, volumeVars, analyzerVars>>
       ELSE /\ sessions < MaxSessions
            /\ StartAnalysis
            /\ volFilter' = ffplayArgs
            /\ UNCHANGED <<volumePercent, requested>>
            /\ IF ~spawnOk
               THEN /\ cmd' = Nil
                    /\ ret' = [ret EXCEPT ![c] = "spawn error"]
                    /\ UNCHANGED <<isStopped, proc>>
               ELSE /\ NumProcs < MaxProcs
                    /\ cmd' = NumProcs + 1
                    /\ proc' = [proc EXCEPT ![NumProcs + 1] = "running"]
                    /\ isStopped' = FALSE
                    /\ ret' = [ret EXCEPT ![c] = "nil"]

\* Stop, from p.mu.Lock() up to its first return or to the select: the idle
\* path, the failed Signal, or SIGTERM delivered and the wait begun.
\* Process.Signal fails once a Wait has reaped the process.
Stop(c) ==
    /\ pc[c] = "Stop"
    /\ mu = Free
    /\ isStopped' = TRUE
    /\ StopAnalysis
    /\ UNCHANGED volumeVars
    /\ IF NotRunning
       THEN /\ pc' = [pc EXCEPT ![c] = AfterStop(c)]
            /\ ret' = [ret EXCEPT ![c] = IF inRestart[c] THEN "none" ELSE "nil"]
            /\ UNCHANGED <<mu, cmd, proc, inRestart>>
       ELSE IF proc[cmd] = "reaped"
       THEN /\ pc' = [pc EXCEPT ![c] = AfterStop(c)]
            /\ ret' = [ret EXCEPT ![c] = IF inRestart[c] THEN "none" ELSE "signal error"]
            /\ UNCHANGED <<mu, cmd, proc, inRestart>>
       ELSE /\ mu' = c
            /\ pc' = [pc EXCEPT ![c] = "StopWait"]
            /\ proc' = [proc EXCEPT ![cmd] = IF @ = "running" THEN "terminating" ELSE @]
            /\ UNCHANGED <<cmd, inRestart, ret>>

\* case <-done: the process has exited
StopDone(c) ==
    /\ pc[c] = "StopWait"
    /\ proc[cmd] \in {"exited", "killed", "reaped"}
    /\ cmd' = Nil
    /\ mu' = Free
    /\ pc' = [pc EXCEPT ![c] = AfterStop(c)]
    /\ ret' = [ret EXCEPT ![c] = IF inRestart[c] THEN "none" ELSE "nil"]
    /\ UNCHANGED <<isStopped, proc, inRestart, volumeVars, analyzerVars>>

\* case <-time.After(2 * time.Second) with the Kill left out
StopTimeoutNoKill(c) ==
    /\ pc[c] = "StopWait"
    /\ cmd' = Nil
    /\ mu' = Free
    /\ pc' = [pc EXCEPT ![c] = AfterStop(c)]
    /\ ret' = [ret EXCEPT ![c] = IF inRestart[c] THEN "none" ELSE "nil"]
    /\ UNCHANGED <<isStopped, proc, inRestart, volumeVars, analyzerVars>>

\* case <-time.After(2 * time.Second): Kill, then clear the handle
StopTimeout(c) ==
    /\ pc[c] = "StopWait"
    /\ proc' = [proc EXCEPT ![cmd] = IF Alive(cmd) THEN "killed" ELSE @]
    /\ cmd' = Nil
    /\ mu' = Free
    /\ pc' = [pc EXCEPT ![c] = AfterStop(c)]
    /\ ret' = [ret EXCEPT ![c] = IF inRestart[c] THEN "none" ELSE "nil"]
    /\ UNCHANGED <<isStopped, inRestart, volumeVars, analyzerVars>>

\* the playback process exits: on its own, killed from outside, or on SIGTERM
ProcExit(i) ==
    /\ Alive(i)
    /\ proc' = [proc EXCEPT ![i] = "exited"]
    /\ UNCHANGED <<mu, cmd, isStopped, pc, inRestart, ret, volumeVars, analyzerVars>>

\* the reaper goroutine of process i: cmd.Wait() returns
ReaperWake(i) ==
    /\ proc[i] \in {"exited", "killed"}
    /\ proc' = [proc EXCEPT ![i] = "reaped"]
    /\ UNCHANGED <<mu, cmd, isStopped, pc, inRestart, ret, volumeVars, analyzerVars>>

\* the reaper goroutine with the assignment p.cmd = nil left out
ReaperClearKeepsHandle(i) ==
    /\ proc[i] = "reaped"
    /\ mu = Free
    /\ proc' = [proc EXCEPT ![i] = "cleared"]
    /\ UNCHANGED <<mu, cmd, isStopped, pc, inRestart, ret, volumeVars, analyzerVars>>

\* the reaper goroutine of process i: p.mu.Lock(); p.cmd = nil; Unlock
ReaperClear(i) ==
    /\ proc[i] = "reaped"
    /\ mu = Free
    /\ cmd' = Nil
    /\ proc' = [proc EXCEPT ![i] = "cleared"]
    /\ UNCHANGED <<mu, isStopped, pc, inRestart, ret, volumeVars, analyzerVars>>

(* ---------------------------- specification --------------------------- *)
\* NewStreamAnalyzer: ctx not cancelled, every other field zero
InitAnalyzer ==
    /\ ctxDone = FALSE
    /\ tasks = EmptyBag
    /\ stats = ZeroStats
    /\ startTime = ZeroTime
    /\ firstAudio = ZeroTime
    /\ bufferUsed = 0
    /\ lastDownloadTime = ZeroTime
    /\ successfulRequests = 0
    /\ failedRequests = 0
    /\ requestTimes = <<>>
    /\ now = 0
    /\ sessions = 0
    /\ ticks = 0
    /\ analysisStopped = FALSE

\* NewPlayer: no process, not stopped, a new analyzer
InitPlayer ==
    /\ mu = Free
    /\ cmd = Nil
    /\ isStopped = FALSE
    /\ proc = [i \in Pids |-> "unborn"]
    /\ pc = [c \in Callers |-> "idle"]
    /\ inRestart = [c \in Callers |-> FALSE]
    /\ ret = [c \in Callers |-> "none"]
    /\ volumePercent = DefaultVolume
    /\ volFilter = NoFilter
    /\ requested = NoRequest

Init ==
    /\ InitPlayer
    /\ InitAnalyzer

Next ==
    \/ \E c \in Callers : CallStart(c)
    \/ \E c \in Callers : CallStop(c)
    \/ \E c \in Callers : CallRestart(c)
    \/ \E c \in Callers, u \in Urls, r \in BOOLEAN, s \in BOOLEAN : Start(c, u, r, s)
    \/ \E c \in Callers : Stop(c)
    \/ \E c \in Callers : StopDone(c)
    \/ \E c \in Callers : StopTimeout(c)
    \/ \E i \in Pids : ProcExit(i)
    \/ \E i \in Pids : ReaperWake(i)
    \/ \E i \in Pids : ReaperClear(i)
    \/ \E g \in BagToSet(tasks) : ObserveCancel(g)

Spec == Init /\ [][Next]_vars

\* the analyzer on its own: its owner's calls, the clock, and every step of
\* its goroutines
NextAnalyzer ==
    \/ CallStartAnalysis
    \/ CallStopAnalysis
    \/ \E t \in Instants : AdvanceTime(t)
    \/ \E g \in BagToSet(tasks), probe \in ProbeOutputs : extractMetadata(g, probe)
    \/ \E g \in BagToSet(tasks) : downloadTick(g)
    \/ \E g \in BagToSet(tasks), ok \in BOOLEAN, d \in Durations : downloadCount(g, ok, d)
    \/ \E g \in BagToSet(tasks) : downloadRead(g)
    \/ \E g \in BagToSet(tasks) : downloadPublish(g)
    \/ \E g \in BagToSet(tasks) : bufferTick(g)
    \/ \E g \in BagToSet(tasks) : bufferPublish(g)
    \/ \E g \in BagToSet(tasks) : networkTick(g)
    \/ \E g \in BagToSet(tasks) : networkLoss(g)
    \/ \E g \in BagToSet(tasks) : networkStability(g)
    \/ \E g \in BagToSet(tasks) : networkPublish(g)
    \/ \E g \in BagToSet(tasks) : ObserveCancel(g)

SpecAnalyzer == Init /\ [][NextAnalyzer]_vars

\* the goroutine of interactiveMode, the one that calls SetVolume
Operator == 1

\* the arguments SetVolume is called with
Percents == {-2147483647, -1, 35, 101, 2147483647}

\* the controller driven by the interactive loop alone, volume commands
\* between its Start, Stop and Restart calls
NextVolume ==
    \/ \E percent \in Percents : SetVolume(percent)
    \/ CallStart(Operator)
    \/ CallStop(Operator)
    \/ CallRestart(Operator)
    \/ \E u \in Urls, r \in BOOLEAN, s \in BOOLEAN : Start(Operator, u, r, s)
    \/ Stop(Operator)
    \/ StopDone(Operator)
    \/ StopTimeout(Operator)
    \/ \E i \in Pids : ProcExit(i)
    \/ \E i \in Pids : ReaperWake(i)
    \/ \E i \in Pids : ReaperClear(i)

SpecVolume == Init /\ [][NextVolume]_vars

\* ffplayArgs over every volume SetVolume can store: the controller after
\* NewPlayer and one SetVolume call, then driven by the interactive loop
InitGain ==
    /\ InitAnalyzer
    /\ mu = Free
    /\ cmd = Nil
    /\ isStopped = FALSE
    /\ proc = [i \in Pids |-> "unborn"]
    /\ pc = [c \in Callers |-> "idle"]
    /\ inRestart = [c \in Callers |-> FALSE]
    /\ ret = [c \in Callers |-> "none"]
    /\ volumePercent \in 0..100
    /\ requested = <<volumePercent>>
    /\ volFilter = NoFilter

NextGain ==
    \/ CallStart(Operator)
    \/ CallStop(Operator)
    \/ \E u \in Urls, r \in BOOLEAN, s \in BOOLEAN : Start(Operator, u, r, s)
    \/ Stop(Operator)
    \/ StopDone(Operator)
    \/ StopTimeout(Operator)
    \/ \E i \in Pids : ProcExit(i)
    \/ \E i \in Pids : ReaperWake(i)
    \/ \E i \in Pids : ReaperClear(i)

SpecGain == InitGain /\ [][NextGain]_vars

\* the scorer and the alerts alone
SpecScorer == Init /\ [][NextScorer]_vars

\* the counters and the ring of a session in which monitorDownloadSpeed has
\* made up to MaxRequests requests that succeeded and as many that failed,
\* each success taking one of StabilityDurations: about 2 s, the limit of
\* the stability penalty
MaxRequests == 4
StabilityDurations == {2 * Second - 1, 2 * Second, 2 * Second + 1}

\* a session after StartAnalysis, extractMetadata with the probe failing and
\* those requests, the periodic goroutines in their select
InitStability ==
    /\ InitPlayer
    /\ ctxDone = FALSE
    /\ tasks = SetToBag({Goroutine(k, "select") : k \in Periodic})
    /\ successfulRequests \in 0..MaxRequests
    /\ failedRequests \in 0..MaxRequests
    /\ requestTimes \in [1..successfulRequests -> StabilityDurations]
    /\ stats = [ZeroStats EXCEPT
                  !.Codec = "Unknown", !.NetworkQuality = "Unknown",
                  !.StartTime = 0, !.ConnectionStability = Whole(100),
                  !.LastUpdated = IF successfulRequests + failedRequests > 0
                                  THEN 0 ELSE ZeroTime]
    /\ startTime = 0
    /\ firstAudio = ZeroTime
    /\ bufferUsed = 0
    /\ lastDownloadTime = 0
    /\ now = 0
    /\ sessions = 1
    /\ ticks = 0
    /\ analysisStopped = FALSE

\* monitorNetworkQuality alone, over those sessions
NextStability ==
    \/ \E g \in BagToSet(tasks) : networkTick(g)
    \/ \E g \in BagToSet(tasks) : networkLoss(g)
    \/ \E g \in BagToSet(tasks) : networkStability(g)
    \/ \E g \in BagToSet(tasks) : networkPublish(g)

SpecStability == InitStability /\ [][NextStability]_vars

\* monitorNetworkQuality next to monitorDownloadSpeed, over those sessions
NextLoss ==
    \/ \E g \in BagToSet(tasks) : downloadTick(g)
    \/ \E g \in BagToSet(tasks), ok \in BOOLEAN, d \in StabilityDurations :
          downloadCount(g, ok, d)
    \/ \E g \in BagToSet(tasks) : downloadRead(g)
    \/ \E g \in BagToSet(tasks) : downloadPublish(g)
    \/ \E g \in BagToSet(tasks) : networkTick(g)
    \/ \E g \in BagToSet(tasks) : networkLoss(g)
    \/ \E g \in BagToSet(tasks) : networkStability(g)
    \/ \E g \in BagToSet(tasks) : networkPublish(g)

SpecLoss == InitStability /\ [][NextLoss]_vars

\* how many requests of a session have succeeded: none, one, and as many as
\* leave the ring one short of full, full, and past its first eviction
RingCounts == {0, 1, RingSize - 1, RingSize, RingSize + 1}

\* a session after StartAnalysis, extractMetadata with the probe failing and
\* those requests, the ring holding the durations of the last 10
InitRing ==
    /\ InitPlayer
    /\ ctxDone = FALSE
    /\ tasks = SetToBag({Goroutine(k, "select") : k \in Periodic})
    /\ successfulRequests \in RingCounts
    /\ failedRequests \in {0, 1}
    /\ requestTimes \in [1..(IF successfulRequests < RingSize
                             THEN successfulRequests ELSE RingSize) -> Durations]
    /\ stats = [ZeroStats EXCEPT
                  !.Codec = "Unknown", !.NetworkQuality = "Unknown",
                  !.StartTime = 0, !.ConnectionStability = Whole(100),
                  !.LastUpdated = IF successfulRequests + failedRequests > 0
                                  THEN 0 ELSE ZeroTime]
    /\ startTime = 0
    /\ firstAudio = ZeroTime
    /\ bufferUsed = 0
    /\ lastDownloadTime = 0
    /\ now = 0
    /\ sessions = 1
    /\ ticks = 0
    /\ analysisStopped = FALSE

\* monitorDownloadSpeed over those sessions, and the StartAnalysis of a
\* further session
NextRing ==
    \/ CallStartAnalysis
    \/ \E g \in BagToSet(tasks) : downloadTick(g)
    \/ \E g \in BagToSet(tasks), ok \in BOOLEAN, d \in Durations :
          downloadCount(g, ok, d)
    \/ \E g \in BagToSet(tasks) : downloadRead(g)
    \/ \E g \in BagToSet(tasks) : downloadPublish(g)

SpecRing == InitRing /\ [][NextRing]_vars

\* the instant of the first buffer tick of a session started at 0 (at
\* 64000 bit/s the accumulator is then empty, 80 bytes in, half full, 16
\* bytes short of full, or full), and the instants of later ticks
FirstTicks == {0, 1, 6610, 13107, 13108}
LaterTicks == {13109, 13110, 19719}

\* a session after StartAnalysis at 0, extractMetadata finding an mp3 stream
\* of 64000 bit/s, and one tick of monitorBuffer
InitBuffer ==
    /\ InitPlayer
    /\ ctxDone = FALSE
    /\ tasks = SetToBag({Goroutine(k, "select") : k \in Periodic})
    /\ successfulRequests = 0
    /\ failedRequests = 0
    /\ requestTimes = <<>>
    /\ now \in FirstTicks
    /\ startTime = 0
    /\ firstAudio = now
    /\ lastDownloadTime = IF now > 0 THEN now ELSE 0
    /\ bufferUsed = IF now > 0 THEN Filled(0, 64000, now) ELSE 0
    /\ stats = updateStats([ZeroStats EXCEPT
                  !.Codec = "mp3", !.Bitrate = 64000, !.SampleRate = 48000,
                  !.StartTime = 0, !.ConnectionStability = Whole(100),
                  !.BufferHealth = Frac(bufferUsed * 100, BufferSize),
                  !.Latency = now])
    /\ sessions = 1
    /\ ticks = 0
    /\ analysisStopped = FALSE

\* monitorBuffer over those sessions as the clock moves on, and the
\* StartAnalysis of a further session
NextBuffer ==
    \/ CallStartAnalysis
    \/ \E t \in LaterTicks : AdvanceTime(t)
    \/ \E g \in BagToSet(tasks) : bufferTick(g)
    \/ \E g \in BagToSet(tasks) : bufferPublish(g)

SpecBuffer == InitBuffer /\ [][NextBuffer]_vars

\* round-trip durations up to the 30 s timeout of the client, in
\* milliseconds, and the most requests of a session of SpecJitter
LongDurations == {50, 1000, 4000, 8000, 30000}
MaxRing == 3

\* a session after StartAnalysis, extractMetadata with the probe failing and
\* up to MaxRing requests, all successful, the ring holding their durations
\* as limbs
InitJitter ==
    /\ InitPlayer
    /\ ctxDone = FALSE
    /\ tasks = SetToBag({Goroutine(k, "select") : k \in Periodic})
    /\ successfulRequests \in 0..MaxRing
    /\ failedRequests = 0
    /\ \E ms \in [1..successfulRequests -> LongDurations] :
          requestTimes = [i \in 1..successfulRequests |-> Milliseconds(ms[i])]
    /\ stats = [ZeroStats EXCEPT
                  !.Codec = "Unknown", !.NetworkQuality = "Unknown",
                  !.StartTime = 0, !.ConnectionStability = Whole(100),
                  !.LastUpdated = IF successfulRequests > 0 THEN 0 ELSE ZeroTime]
    /\ startTime = 0
    /\ firstAudio = ZeroTime
    /\ bufferUsed = 0
    /\ lastDownloadTime = 0
    /\ now = 0
    /\ sessions = 1
    /\ ticks = 0
    /\ analysisStopped = FALSE

\* monitorNetworkQuality up to its jitter, over those sessions
NextJitter ==
    \/ \E g \in BagToSet(tasks) : networkTick(g)
    \/ \E g \in BagToSet(tasks) : networkLossInt64(g)

SpecJitter == InitJitter /\ [][NextJitter]_vars

\* the analyzer with its goroutines at one instant of the clock, the probe
\* failing and every request taking as long
NextCancel ==
    \/ CallStartAnalysis
    \/ CallStopAnalysis
    \/ \E g \in BagToSet(tasks) :
          extractMetadata(g, [out |-> "error", streams |-> <<>>])
    \/ \E g \in BagToSet(tasks) : downloadTick(g)
    \/ \E g \in BagToSet(tasks), ok \in BOOLEAN : downloadCount(g, ok, 10000)
    \/ \E g \in BagToSet(tasks) : downloadRead(g)
    \/ \E g \in BagToSet(tasks) : downloadPublish(g)
    \/ \E g \in BagToSet(tasks) : bufferTick(g)
    \/ \E g \in BagToSet(tasks) : bufferPublish(g)
    \/ \E g \in BagToSet(tasks) : networkTick(g)
    \/ \E g \in BagToSet(tasks) : networkLoss(g)
    \/ \E g \in BagToSet(tasks) : networkStability(g)
    \/ \E g \in BagToSet(tasks) : networkPublish(g)
    \/ \E g \in BagToSet(tasks) : ObserveCancel(g)

\* the scheduler runs every goroutine that can take a step; the ffprobe
\* command and the HEAD request return; a select in which <-sa.ctx.Done()
\* is ready again and again takes that case in the end (Go chooses among
\* the ready cases at random)
FairCancel ==
    /\ WF_vars(\E g \in BagToSet(tasks) :
                 extractMetadata(g, [out |-> "error", streams |-> <<>>]))
    /\ WF_vars(\E g \in BagToSet(tasks), ok \in BOOLEAN : downloadCount(g, ok, 10000))
    /\ WF_vars(\E g \in BagToSet(tasks) : downloadRead(g))
    /\ WF_vars(\E g \in BagToSet(tasks) : downloadPublish(g))
    /\ WF_vars(\E g \in BagToSet(tasks) : bufferPublish(g))
    /\ WF_vars(\E g \in BagToSet(tasks) : networkLoss(g))
    /\ WF_vars(\E g \in BagToSet(tasks) : networkStability(g))
    /\ WF_vars(\E g \in BagToSet(tasks) : networkPublish(g))
    /\ SF_vars(\E g \in BagToSet(tasks) : ObserveCancel(g))

SpecCancel == Init /\ [][NextCancel]_vars /\ FairCancel

\* one goroutine (the command loop) drives the player; processes exit and
\* their reapers run
NextReaper ==
    \/ CallStart(Operator)
    \/ CallStop(Operator)
    \/ CallRestart(Operator)
    \/ \E u \in Urls, r \in BOOLEAN, s \in BOOLEAN : Start(Operator, u, r, s)
    \/ Stop(Operator)
    \/ StopDone(Operator)
    \/ StopTimeout(Operator)
    \/ \E i \in Pids : ProcExit(i)
    \/ \E i \in Pids : ReaperWake(i)
    \/ \E i \in Pids : ReaperClear(i)

\* the scheduler runs a reaper goroutine whose cmd.Wait() can return, and
\* one that waits for p.mu once the lock is free; the select of Stop takes
\* a ready case, and time.After(2 s) becomes ready
FairReaper ==
    /\ WF_vars(\E i \in Pids : ReaperWake(i))
    /\ SF_vars(\E i \in Pids : ReaperClear(i))
    /\ WF_vars(StopDone(Operator))
    /\ WF_vars(StopTimeout(Operator))

SpecReaper == Init /\ [][NextReaper]_vars /\ FairReaper

\* main's signal goroutine: <-sig; _ = p.Stop(); cancel()
SignalHandler == 2

\* the signal arrives, once, and the goroutine calls p.Stop()
SignalStop ==
    /\ ret[SignalHandler] = "none"
    /\ CallStop(SignalHandler)

\* the command loop reads "v" and a number and calls p.SetVolume(v)
CommandVolume(percent) ==
    /\ pc[Operator] = "idle"
    /\ SetVolume(percent)

\* the command loop and the signal goroutine share the player
NextSignal ==
    \/ \E percent \in Percents : CommandVolume(percent)
    \/ CallStart(Operator)
    \/ CallStop(Operator)
    \/ CallRestart(Operator)
    \/ SignalStop
    \/ \E u \in Urls, r \in BOOLEAN, s \in BOOLEAN : Start(Operator, u, r, s)
    \/ \E c \in {Operator, SignalHandler} : Stop(c)
    \/ \E c \in {Operator, SignalHandler} : StopDone(c)
    \/ \E c \in {Operator, SignalHandler} : StopTimeout(c)
    \/ \E i \in Pids : ProcExit(i)
    \/ \E i \in Pids : ReaperWake(i)
    \/ \E i \in Pids : ReaperClear(i)

SpecSignal == Init /\ [][NextSignal]_vars

(* ------------------------- properties: Player ------------------------- *)
\* the processes spawned by the controller that are executing
AliveProcs == {i \in Pids : Alive(i)}

\* caller c's Start runs in this step (lock taken, body run, lock released)
StartRuns(c) == pc[c] = "Start" /\ pc'[c] # "Start"

\* caller c's Stop takes the lock and runs up to its return or its select
StopRuns(c) == pc[c] = "Stop" /\ pc'[c] # "Stop"

\* caller c's Stop returns in this step
StopReturns(c) == pc[c] \in {"Stop", "StopWait"} /\ pc'[c] \notin {"Stop", "StopWait"}

\* caller c is between the Stop and the Start of its Restart
InRestartGap(c) == inRestart[c] /\ pc[c] = "Start"

\* C1: at most one playback process spawned by the controller is alive at
\* any time, under every interleaving of Start, Stop, Restart, reapers and
\* process exits.
C1_AtMostOneProcessAlive == Cardinality(AliveProcs) <= 1

\* C2: Start called while a process handle is present returns the
\* already-running error and changes nothing: handle, processes, stopped
\* flag, lock and analyzer session are as before the call.
C2_StartWhileRunningChangesNothing ==
    [][\A c \in Callers :
          (StartRuns(c) /\ cmd # Nil) =>
              /\ ret'[c] = "already running"
              /\ UNCHANGED <<mu, cmd, isStopped, proc, analyzerVars>>]_vars

\* C2 witness: a Start has returned the already-running error, the handle
\* still referring to the running process.
C2_Witness ==
    \E c \in Callers : ret[c] = "already running" /\ cmd # Nil /\ Alive(cmd)

\* C3: Stop called with no process handle returns no error, sets stopped,
\* cancels the analysis session and leaves the handle empty; from a state
\* such a Stop has produced, another Stop changes nothing of the program's
\* state.
C3_StopWhenIdleIdempotent ==
    [][\A c \in Callers :
          (StopRuns(c) /\ cmd = Nil) =>
              /\ ~inRestart[c] => ret'[c] = "nil"
              /\ isStopped' /\ ctxDone' /\ cmd' = Nil /\ mu' = Free
              /\ UNCHANGED <<proc, tasks, sessions, ticks, dataVars>>
              /\ (isStopped /\ ctxDone) =>
                    UNCHANGED <<mu, cmd, isStopped, proc, ctxDone, tasks,
                                sessions, ticks, dataVars>>]_vars

\* C3 witness: no process was ever spawned and two Stop calls have returned
\* without error, the controller stopped and the session cancelled.
C3_Witness ==
    /\ \A i \in Pids : proc[i] = "unborn"
    /\ \A c \in Callers : pc[c] = "idle" /\ ret[c] = "nil"
    /\ isStopped /\ ctxDone /\ cmd = Nil

\* C4: on every return path of Stop the process handle is empty when Stop
\* returns.
C4_StopReturnsWithEmptyHandle ==
    [][\A c \in Callers : StopReturns(c) => cmd' = Nil]_vars

\* C5: Restart holds the controller lock across its Stop and its Start, so
\* nothing the lock guards changes between the two phases of one Restart.
C5_RestartHoldsLockAcrossPhases ==
    [][\A c \in Callers :
          (InRestartGap(c) /\ InRestartGap(c)') =>
              UNCHANGED <<mu, cmd, isStopped, ctxDone, sessions>>]_vars

\* C6: once StopAnalysis has returned, and until the next StartAnalysis, no
\* goroutine writes to the stats snapshot: two GetStats reads taken in that
\* span are equal.
C6_NoWritesAfterStopAnalysis ==
    [][(analysisStopped /\ analysisStopped') => GetStats' = GetStats]_vars

\* C7: at most one instance of each periodic monitoring goroutine is running.
C7_NoLeakedMonitoringTasks == \A k \in Periodic : LiveCount(k) <= 1

\* C8: every StartAnalysis launches its goroutines against a token that is
\* not cancelled, and a periodic goroutine returns only after StopAnalysis
\* has been called for its session.
C8_StartAnalysisUsesFreshToken ==
    [][/\ sessions' = sessions + 1 => ~ctxDone'
       /\ \A k \in Periodic :
             LiveCount(k)' < LiveCount(k) => analysisStopped]_vars

\* C9: whenever the controller lock is free, a non-empty handle implies an
\* active analyzer session: token not cancelled, periodic goroutines running.
C9_HandleImpliesSessionActive ==
    (mu = Free /\ cmd # Nil) =>
        (~ctxDone /\ \A k \in Periodic : LiveCount(k) >= 1)

\* C10: once a label has been computed for the snapshot, its NetworkQuality
\* is the label assessNetworkQuality gives for its other fields whenever
\* sa.mu is free, after a write by updateStats and after one by
\* StartAnalysis (every step of a behaviour is one critical section of sa.mu).
C10_LabelMatchesSnapshot ==
    (sessions > 0 /\ GetStats.NetworkQuality # "") =>
        GetStats.NetworkQuality = assessNetworkQuality(GetStats)

\* C11: a Start whose URL resolution fails returns the resolver's error and
\* starts nothing: lock, handle, stopped flag, processes, volume and every
\* analyzer variable (session, token, counters, goroutines) are as before.
C11_ResolveFailureStartsNothing ==
    [][\A c \in Callers :
          (StartRuns(c) /\ ret'[c] = "resolve error") =>
              UNCHANGED <<mu, cmd, isStopped, proc, volumeVars, analyzerVars>>]_vars

\* C11 witness: a Start has returned the resolver's error on a controller
\* that has never started a session or spawned a process.
C11_Witness ==
    \E c \in Callers :
        /\ pc[c] = "idle" /\ ret[c] = "resolve error"
        /\ sessions = 0 /\ NumProcs = 0 /\ tasks = EmptyBag /\ cmd = Nil

\* C12: a Start whose spawn fails returns the spawn error with the handle
\* empty and without a session of its own left active: the token is
\* cancelled or no goroutine more is running than before the call.
C12_SpawnFailureLeavesNoSession ==
    [][\A c \in Callers :
          (StartRuns(c) /\ ret'[c] = "spawn error") =>
              /\ cmd' = Nil
              /\ UNCHANGED <<isStopped, proc>>
              /\ ctxDone' \/ \A k \in Kinds : LiveCount(k)' <= LiveCount(k)]_vars

\* C13: when a Stop that targeted a process returns, that process is not
\* running: it has exited or Stop has killed it; and a Stop whose grace
\* period elapses with the process still running kills it.
C13_StopNeverLeavesProcessRunning ==
    [][\A c \in Callers :
          (StopReturns(c) /\ cmd # Nil) =>
              /\ proc'[cmd] \notin {"running", "terminating"}
              /\ (pc[c] = "StopWait" /\ Alive(cmd)) => proc'[cmd] = "killed"]_vars

\* C13 witness: a Stop has returned without error after killing the process
\* it targeted.
C13_Witness ==
    \E c \in Callers, i \in Pids :
        /\ pc[c] = "idle" /\ ret[c] = "nil"
        /\ proc[i] = "killed" /\ cmd = Nil /\ isStopped

\* the value min(100, max(0, percent))
Clamp(percent) ==
    LET atLeast0 == IF percent > 0 THEN percent ELSE 0
    IN  IF atLeast0 < 100 THEN atLeast0 ELSE 100

\* C14: after any SetVolume calls the stored volume is in 0..100 and is
\* min(100, max(0, percent)) of the last call's argument; a SetVolume step
\* changes neither the handle, nor a process, nor the gain a process was
\* started with.
C14_VolumeClampedAndDeferred ==
    /\ [](volumePercent \in 0..100)
    /\ [](requested # NoRequest => volumePercent = Clamp(requested[1]))
    /\ [][requested' # requested => UNCHANGED <<cmd, proc, volFilter>>]_vars

\* C14 witness: a process is running with the gain of the default volume,
\* and SetVolume has since been called with an argument above 100.
C14_Witness ==
    /\ cmd # Nil /\ Alive(cmd)
    /\ requested = <<101>> /\ volumePercent = 100
    /\ volFilter = <<-6000000>>

\* C15: the gain passed to the player is -20 * (1 - percent/100) dB for the
\* stored percent (here in millionths of a dB, as printed), lies in
\* [-20, 0] and is not below the gain of any smaller percent.
C15_GainFormula ==
    volFilter # NoFilter =>
        /\ volFilter[1] = -20000000 + 200000 * volumePercent
        /\ volFilter[1] >= -20000000 /\ volFilter[1] <= 0
        /\ \A q \in 0..100 :
              q <= volumePercent => Sprintf(volDb(q)) <= volFilter[1]

\* C15 witness: a process was started at volume 70 with a gain of -6 dB.
C15_Witness ==
    /\ volumePercent = 70 /\ volFilter = <<-6000000>>
    /\ cmd # Nil /\ Alive(cmd)

(* ------------------------ properties: analyzer ------------------------ *)
\* C16: in the metadata failure modes (probe fails, output does not parse,
\* no audio stream), which are the ones that publish codec "Unknown" or
\* "AAC", the published bitrate is 128000 and the sample rate 44100.
C16_MetadataFallbackDefaults ==
    stats.Codec \in {"Unknown", "AAC"} =>
        stats.Bitrate = 128000 /\ stats.SampleRate = 44100

\* the reference scorer: points per factor by the thresholds of the
\* specification, the ratio test speed / (bitrate / 8) >= k/10 taken as
\* 80 * speed >= k * bitrate
ReferenceScore(s) ==
    LET reaches(k) == 80 * s.DownloadSpeed[1] >= k * s.Bitrate * s.DownloadSpeed[2]
        speed == CASE reaches(12) -> 40 [] ~reaches(12) /\ reaches(10) -> 35
                   [] ~reaches(10) /\ reaches(8) -> 25
                   [] ~reaches(8) /\ reaches(6) -> 15 [] OTHER -> 5
        above(x, k) == x[1] > k * x[2]
        below(x, k) == x[1] < k * x[2]
        buffer == CASE above(s.BufferHealth, 80) -> 20
                    [] ~above(s.BufferHealth, 80) /\ above(s.BufferHealth, 60) -> 15
                    [] ~above(s.BufferHealth, 60) /\ above(s.BufferHealth, 40) -> 10
                    [] OTHER -> 5
        loss == CASE below(s.PacketLoss, 1) -> 10
                  [] ~below(s.PacketLoss, 1) /\ below(s.PacketLoss, 5) -> 5
                  [] ~below(s.PacketLoss, 5) /\ below(s.PacketLoss, 10) -> 2
                  [] OTHER -> 0
        jitter == CASE s.Jitter < 100000000 -> 5
                    [] s.Jitter >= 100000000 /\ s.Jitter < 500000000 -> 3
                    [] s.Jitter >= 500000000 /\ s.Jitter < 1000000000 -> 1
                    [] OTHER -> 0
    IN  FracAdd(Whole(speed + buffer + loss + jitter),
                FracDiv(s.ConnectionStability, Whole(4)))

ReferenceLabel(s) ==
    LET atLeast(k) == ReferenceScore(s)[1] >= k * ReferenceScore(s)[2]
    IN  CASE s.Bitrate = 0 \/ s.DownloadSpeed[1] = 0 -> "Unknown"
          [] OTHER -> CASE atLeast(90) -> "Excellent"
                        [] ~atLeast(90) /\ atLeast(75) -> "Good"
                        [] ~atLeast(75) /\ atLeast(60) -> "Fair"
                        [] ~atLeast(60) /\ atLeast(40) -> "Poor"
                        [] OTHER -> "Very Poor"

\* the two scenarios of the specification
GoodScenario(s) ==
    /\ s.Bitrate = 128000 /\ s.DownloadSpeed = Whole(19200)
    /\ s.BufferHealth = Whole(85) /\ s.ConnectionStability = Whole(100)
    /\ s.PacketLoss = Whole(0) /\ s.Jitter = 0

BadScenario(s) ==
    /\ s.Bitrate = 128000 /\ s.DownloadSpeed = Whole(6400)
    /\ s.BufferHealth = Whole(20) /\ s.ConnectionStability = Whole(50)
    /\ s.PacketLoss = Whole(8) /\ s.Jitter = 600 * Millisecond

Rank(label) ==
    CASE label = "Unknown" -> 0 [] label = "Very Poor" -> 1
      [] label = "Poor" -> 2 [] label = "Fair" -> 3
      [] label = "Good" -> 4 [] label = "Excellent" -> 5

\* snapshot t is snapshot s with field f alone (and the label) replaced
OnlyChanged(s, t, f) ==
    \A g \in DOMAIN s : (g # f /\ g # "NetworkQuality") => t[g] = s[g]

\* C18: when one of download speed, buffer health and connection stability
\* is increased and every other field of a labelled snapshot kept, the
\* label does not decrease.
C18_LabelMonotone ==
    [][\A f \in {"DownloadSpeed", "BufferHealth", "ConnectionStability"} :
          (/\ stats.NetworkQuality # ""
           /\ OnlyChanged(stats, stats', f)
           /\ FracLess(stats[f], stats'[f])) =>
              Rank(stats'.NetworkQuality) >= Rank(stats.NetworkQuality)]_vars

\* C18 witness: a snapshot whose speed, buffer health and stability have
\* each been raised to the largest value, at a label above "Unknown".
C18_Witness ==
    /\ stats.DownloadSpeed = Whole(19200) /\ stats.BufferHealth = Whole(85)
    /\ stats.ConnectionStability = Whole(100) /\ stats.PacketLoss = Whole(10)
    /\ Rank(stats.NetworkQuality) > 0

\* the alerts of the specification, in its order, each with its condition
ReferenceAlerts ==
    LET Holds(a) ==
            CASE a = "packet loss" -> stats.PacketLoss[1] > 5 * stats.PacketLoss[2]
              [] a = "jitter" -> stats.Jitter > 500000000
              [] a = "stability" ->
                    stats.ConnectionStability[1] < 70 * stats.ConnectionStability[2]
              [] a = "buffer" -> stats.BufferHealth[1] < 30 * stats.BufferHealth[2]
              [] a = "quality" -> stats.NetworkQuality \in {"Poor", "Very Poor"}
              [] a = "latency" -> stats.Latency > 50
              [] a = "speed" ->
                    10 * stats.DownloadSpeed[1] < stats.Bitrate * stats.DownloadSpeed[2]
    IN  SelectSeq(<<"packet loss", "jitter", "stability", "buffer", "quality",
                    "latency", "speed">>, Holds)

\* C19: GetQualityAlerts returns one alert for each condition that holds,
\* each decided on its own, in the fixed order, and none when none holds.
C19_AlertsMatchConditions == GetQualityAlerts = ReferenceAlerts

\* C19 witness: a snapshot for which all seven alerts are returned.
C19_Witness ==
    GetQualityAlerts = <<"packet loss", "jitter", "stability", "buffer",
                         "quality", "latency", "speed">>

\* C20: the published ConnectionStability is within [0, 100], whatever the
\* success and failure counters and the durations in the ring.
C20_StabilityWithinBounds ==
    /\ FracLeq(Whole(0), stats.ConnectionStability)
    /\ FracLeq(stats.ConnectionStability, Whole(100))

\* C20 witness: half of four requests failed and the mean duration of the
\* ring is above 2 s; the stability published is 50 * 0.8.
C20_Witness ==
    /\ successfulRequests = 2 /\ failedRequests = 2
    /\ Mean(requestTimes) > 2 * Second
    /\ stats.ConnectionStability = Whole(40)
    /\ ticks > 0

\* C21: every PacketLoss the network-quality monitor publishes is
\* failed / (failed + successful) * 100 for counters read at one instant (the
\* failures counted are among the requests counted), is 0 when no request
\* has completed, and is within [0, 100], however the monitor interleaves
\* with monitorDownloadSpeed.
C21_PacketLossFromOneInstant ==
    /\ FracLeq(Whole(0), stats.PacketLoss) /\ FracLeq(stats.PacketLoss, Whole(100))
    /\ \A g \in BagToSet(tasks) :
          (g.kind = "network" /\ g.pc \in {"stability", "publish"}) =>
             IF g.totalRequests = 0 THEN g.packetLoss = Whole(0)
             ELSE \E failed \in 0..g.totalRequests :
                     g.packetLoss = Frac(failed * 100, g.totalRequests)

\* the six labels of the specification
Labels == {"Unknown", "Very Poor", "Poor", "Fair", "Good", "Excellent"}

\* C22: in every reachable state, the state of a freshly created analyzer
\* included, the NetworkQuality GetStats returns is one of the six labels.
C22_LabelIsOneOfSix == GetStats.NetworkQuality \in Labels

\* C23: NetworkQuality changes only inside updateStats: a step that changes
\* it is the publishing step of a goroutine (the end of extractMetadata's
\* probe, or the updateStats of a periodic goroutine) and leaves the label
\* updateStats computes; StartAnalysis, StopAnalysis, the counter and ring
\* updates and the buffer accumulation leave it unchanged.
C23_LabelChangesOnlyInUpdateStats ==
    [][stats'.NetworkQuality # stats.NetworkQuality =>
          /\ stats'.NetworkQuality = assessNetworkQuality(stats')
          /\ \E g \in BagToSet(tasks) :
                /\ g.pc \in {"probe", "publish"}
                /\ CopiesIn(g, tasks') < CopiesIn(g, tasks)
          /\ UNCHANGED <<sessions, ctxDone, analysisStopped, startTime,
                         successfulRequests, failedRequests, requestTimes,
                         bufferUsed, lastDownloadTime>>]_vars

\* C23 witness: a second session has been started over a snapshot labelled
\* by the first, a request of it has been counted, and the label stands.
C23_Witness ==
    /\ sessions = 2
    /\ stats.NetworkQuality \in Labels \ {"Unknown"}
    /\ successfulRequests + failedRequests > 0
    /\ stats.ConnectionStability = Whole(100)

HalfVariance(times) == JitterAtWidth(times, WideTop)

\* C26: for every ring of durations between 0 and 30 s the jitter computed
\* is 0 when the ring has fewer than 2 entries and otherwise half the
\* population variance of the durations around their mean, as an int64
\* number of nanoseconds; it is never negative.
C26_JitterIsHalfVariance ==
    \A g \in BagToSet(tasks) :
       (g.kind = "network" /\ g.pc = "stability") =>
          /\ Len(g.requestTimes) < 2 => g.jitter = FromInt(0)
          /\ ~WIsNeg(g.jitter, Int64Top)
          /\ g.jitter = HalfVariance(g.requestTimes)

\* the stability of the specification: 100 when no request has completed,
\* otherwise the success rate in percent, times 0.8 when the ring is not
\* empty and the mean of its durations is above 2 s, kept within [0, 100]
ReferenceStability ==
    LET total == successfulRequests + failedRequests
        rate == Frac(successfulRequests * 100, total)
        penalised == IF requestTimes # <<>> /\ Mean(requestTimes) > 2000000000
                     THEN FracMul(rate, Frac(8, 10)) ELSE rate
    IN  IF total = 0 THEN Whole(100)
        ELSE IF FracLess(penalised, Whole(0)) THEN Whole(0)
        ELSE IF FracLess(Whole(100), penalised) THEN Whole(100)
        ELSE penalised

\* C27: the connection stability computed is 100 when no request has
\* completed and otherwise the success rate in percent, times 0.8 whenever
\* the mean of the durations in the ring exceeds 2 s (a ring of a single
\* duration included), clamped to [0, 100].
C27_StabilityFormula ==
    \A g \in BagToSet(tasks) :
       (g.kind = "network" /\ g.pc = "publish") => g.stability = ReferenceStability

\* C28: in every session the first buffer tick after StartAnalysis sets
\* Latency to its time minus the start time of that session and later ticks
\* leave it: after every publication of the buffer monitor the instant of
\* first audio is not before the start of the current session and Latency
\* is the time from that start to it.
C28_LatencyIsPerSession ==
    [][\A g \in BagToSet(tasks) :
          (/\ g.kind = "buffer" /\ g.pc = "publish"
           /\ CopiesIn(g, tasks') < CopiesIn(g, tasks)) =>
              /\ firstAudio' >= startTime
              /\ stats'.Latency = firstAudio' - startTime]_vars

\* C29: whenever the download-speed monitor publishes, the DownloadSpeed of
\* the resulting snapshot is the Bitrate of that snapshot divided by 8,
\* however the monitor interleaves with extractMetadata.
C29_SpeedMatchesBitrate ==
    [][\A g \in BagToSet(tasks) :
          (/\ g.kind = "download" /\ g.pc = "publish"
           /\ CopiesIn(g, tasks') < CopiesIn(g, tasks)) =>
              stats'.DownloadSpeed = Frac(stats'.Bitrate, 8)]_vars

\* C30: after StopAnalysis has been called every monitoring goroutine
\* eventually returns, given a fair scheduler and probes and requests that
\* return; a periodic goroutine is back in its select, where it consults
\* the token, after every iteration.
C30_TasksTerminateAfterStop == analysisStopped ~> (tasks = EmptyBag)

\* C30 witness: two sessions were started, their goroutines took ticks, the
\* analysis was stopped last, and no goroutine is left.
C30_Witness ==
    /\ analysisStopped /\ tasks = EmptyBag
    /\ sessions = 2 /\ ticks = 2
    /\ successfulRequests + failedRequests > 0

\* C31: once the playback process has exited without Stop having acted on
\* it (on its own or terminated from outside) while the handle refers to
\* it, the handle is eventually cleared, by a step taken with the lock
\* free; and a Start that runs with the handle cleared is never refused as
\* already running.
C31_ReaperEventuallyClearsHandle ==
    /\ \A i \in Pids : (proc[i] = "exited" /\ cmd = i) ~> (cmd = Nil)
    /\ [][\A i \in Pids : (proc[i] = "reaped" /\ proc'[i] = "cleared")
                             => (mu = Free /\ mu' = Free /\ cmd' = Nil)]_vars
    /\ [][(StartRuns(Operator) /\ cmd = Nil)
            => ret'[Operator] # "already running"]_vars

\* the first process exited, Stop was never called, its reaper cleared the
\* handle, and the next Start was accepted and spawned the second process
C31_Witness ==
    /\ ~ctxDone
    /\ proc[1] = "cleared"
    /\ cmd = 2
    /\ proc[2] = "running"
    /\ ret[Operator] = "nil"

\* the step writes the process handle or the stopped flag
WritesHandleOrFlag == cmd' # cmd \/ isStopped' # isStopped

\* the step writes the volume percentage
WritesVolume == volumePercent' # volumePercent

\* the goroutine that holds the lock in Stop's wait takes this step
HolderSteps == \E c \in Callers : mu = c /\ pc[c] = "StopWait" /\ pc'[c] # "StopWait"

\* C32: every write to the process handle, the stopped flag or the volume
\* percentage is made by a goroutine that holds the controller lock: no
\* such write happens while another goroutine holds it.
C32_WritesHoldLock ==
    [][(WritesHandleOrFlag \/ WritesVolume) => (mu = Free \/ HolderSteps)]_vars

\* the writes of Start, Stop and the reaper alone
C32_LockedWriters ==
    [][WritesHandleOrFlag => (mu = Free \/ HolderSteps)]_vars

\* C33: whenever the controller lock is free and a process spawned by Start
\* is alive and has not been signalled by Stop, the process handle refers
\* to that process.
C33_HandleRefersToPlayingProcess ==
    mu = Free => \A i \in Pids : proc[i] = "running" => cmd = i

=============================================================================
